---------------------------- MODULE Spec2Model ----------------------------
(***************************************************************************)
(* A model of vec2text's models/model_utils.py: the embedder/tokenizer     *)
(* loader, the two in-place model mutators (disable_dropout and            *)
(* freeze_params), the three masked pooling functions and                  *)
(* PrefixReranker.score_prefix_and_embedding.                              *)
(*                                                                         *)
(* The module's functions are synchronous and share no state, so each      *)
(* component gets its own specification over the same variables: a caller  *)
(* that draws the inputs from bounded sets and applies the functions.      *)
(***************************************************************************)
EXTENDS Integers, Sequences, FiniteSets, TLC

VARIABLES
    last_load,        \* what the last load_embedder_and_tokenizer call did
    n_loads,          \* how many times the loader has been called
    repo_log,         \* every request the external repository has received
    hidden_states,    \* pooling input, shape (B, S, D)
    attention_mask,   \* pooling input, shape (B, S), entries 0/1
    pooled,           \* the last pooling call: its name and its output
    changed,          \* the last pooling call saw other masked-out values
    model,            \* the nn.Module tree handed to the mutators
    printed,          \* what each mutator last printed (its count)
    scorer_call,      \* inputs of score_prefix_and_embedding
    scorer_result     \* what it passed to prefix_embedder, and its scores

vars == <<last_load, n_loads, repo_log, hidden_states, attention_mask, pooled, changed,
          model, printed, scorer_call, scorer_result>>

loader_vars == <<last_load, n_loads, repo_log>>
pool_vars   == <<hidden_states, attention_mask, pooled, changed>>
module_vars == <<model, printed>>
scorer_vars == <<scorer_call, scorer_result>>

None == "None"

\* The values of the variables of a component that is not in use.
NoError == [type |-> None, msg |-> None]

NoEmbedder == [artifact |-> None, weights |-> None, part |-> None]

NoTokenizer == [artifact |-> None]

NoLoad == [name |-> None, matching |-> {}, branch |-> 0, raised |-> FALSE,
           error |-> NoError, calls |-> <<>>, model |-> NoEmbedder,
           tokenizer |-> NoTokenizer]

NotPooled == [op |-> "none", out |-> <<>>]

NoModel == [modules |-> <<>>, params |-> <<>>]

NothingPrinted == [disable_dropout |-> <<>>, freeze_params |-> <<>>]

NoScorerCall == [prefix_ids |-> <<>>, attention_mask |-> <<>>, embeddings |-> <<>>]

NotScored == [inputs_embeds |-> <<>>, attention_mask |-> <<>>, scores |-> <<>>]

Range(f) == {f[i] : i \in DOMAIN f}

RECURSIVE SumSeq(_)
SumSeq(s) == IF s = <<>> THEN 0 ELSE Head(s) + SumSeq(Tail(s))

(***************************************************************************)
(* Bounds of the model.                                                    *)
(***************************************************************************)
MaxCalls == 2           \* loader calls in one run

---------------------------------------------------------------------------
(***************************************************************************)
(* load_embedder_and_tokenizer                                             *)
(***************************************************************************)
MODEL_NAMES == <<"bert", "contriever", "dpr", "gtr_base",
                 "gtr_base__random_init", "gtr_large", "ance_tele", "dpr_st",
                 "gtr_base_st", "paraphrase-distilroberta">>

\* Names a caller may pass that are no model identifier.
OtherNames == {"not_a_real_model", "", "BERT", "gtr", "dpr "}

Names == Range(MODEL_NAMES) \cup OtherNames

model_kwargs == {<<"low_cpu_mem_usage", TRUE>>, <<"output_hidden_states", TRUE>>}

no_kwargs == {}

\* One library call: what is called, on which named artifact, with which
\* keyword options, and what the result is bound to.
LibCall(api, artifact, kwargs, binds) ==
    [api |-> api, artifact |-> artifact, kwargs |-> kwargs, binds |-> binds]

\* model = Api.from_pretrained(a[, **model_kwargs]);
\* tokenizer = AutoTokenizer.from_pretrained(a)
HubBranch(when, api, artifact, kwargs, part) ==
    [when |-> when,
     calls |-> <<LibCall(api, artifact, kwargs, "model"),
                 LibCall("transformers.AutoTokenizer.from_pretrained", artifact,
                         no_kwargs, "tokenizer")>>,
     model |-> [artifact |-> artifact, weights |-> "pretrained", part |-> part],
     tokenizer |-> [artifact |-> artifact]]

\* model = SentenceTransformer(a); tokenizer = model.tokenizer
StBranch(when, artifact) ==
    [when |-> when,
     calls |-> <<LibCall("SentenceTransformer", artifact, no_kwargs, "model")>>,
     model |-> [artifact |-> artifact, weights |-> "pretrained", part |-> "whole"],
     tokenizer |-> [artifact |-> artifact]]

\* config = AutoConfig.from_pretrained(a);
\* model = AutoModel.from_config(config).encoder;
\* tokenizer = AutoTokenizer.from_pretrained(a)
ConfigBranch(when, artifact) ==
    [when |-> when,
     calls |-> <<LibCall("transformers.AutoConfig.from_pretrained", artifact,
                         no_kwargs, "config"),
                 LibCall("transformers.AutoModel.from_config", artifact,
                         no_kwargs, "model"),
                 LibCall("transformers.AutoTokenizer.from_pretrained", artifact,
                         no_kwargs, "tokenizer")>>,
     model |-> [artifact |-> artifact, weights |-> "random", part |-> "encoder"],
     tokenizer |-> [artifact |-> artifact]]

AutoModel == "transformers.AutoModel.from_pretrained"

\* The dpr branch takes the tokenizer of the question encoder.
BranchesTokenizerMismatch ==
    <<[when |-> "dpr",
       calls |-> <<LibCall("transformers.DPRContextEncoder.from_pretrained",
                           "facebook/dpr-ctx_encoder-single-nq-base", no_kwargs,
                           "model"),
                   LibCall("transformers.AutoTokenizer.from_pretrained",
                           "facebook/dpr-question_encoder-single-nq-base",
                           no_kwargs, "tokenizer")>>,
       model |-> [artifact |-> "facebook/dpr-ctx_encoder-single-nq-base",
                  weights |-> "pretrained", part |-> "whole"],
       tokenizer |-> [artifact |-> "facebook/dpr-question_encoder-single-nq-base"]],
      StBranch("dpr_st",
               "sentence-transformers/facebook-dpr-question_encoder-multiset-base"),
      HubBranch("contriever", AutoModel, "facebook/contriever", model_kwargs, "whole"),
      HubBranch("bert", AutoModel, "bert-base-uncased", model_kwargs, "whole"),
      HubBranch("gtr_base", AutoModel, "sentence-transformers/gtr-t5-base",
                model_kwargs, "encoder"),
      ConfigBranch("gtr_base__random_init", "sentence-transformers/gtr-t5-base"),
      StBranch("gtr_base_st", "sentence-transformers/gtr-t5-base"),
      StBranch("gtr_large", "sentence-transformers/gtr-t5-large"),
      HubBranch("ance_tele", AutoModel, "OpenMatch/ance-tele_nq_psg-encoder",
                model_kwargs, "whole"),
      HubBranch("paraphrase-distilroberta", AutoModel,
                "sentence-transformers/paraphrase-distilroberta-base-v1",
                model_kwargs, "whole")>>

\* The bert branch forgets **model_kwargs.
BranchesBertWithoutKwargs ==
    <<HubBranch("dpr", "transformers.DPRContextEncoder.from_pretrained",
                "facebook/dpr-ctx_encoder-single-nq-base", no_kwargs, "whole"),
      StBranch("dpr_st",
               "sentence-transformers/facebook-dpr-question_encoder-multiset-base"),
      HubBranch("contriever", AutoModel, "facebook/contriever", model_kwargs, "whole"),
      HubBranch("bert", AutoModel, "bert-base-uncased", no_kwargs, "whole"),
      HubBranch("gtr_base", AutoModel, "sentence-transformers/gtr-t5-base",
                model_kwargs, "encoder"),
      ConfigBranch("gtr_base__random_init", "sentence-transformers/gtr-t5-base"),
      StBranch("gtr_base_st", "sentence-transformers/gtr-t5-base"),
      StBranch("gtr_large", "sentence-transformers/gtr-t5-large"),
      HubBranch("ance_tele", AutoModel, "OpenMatch/ance-tele_nq_psg-encoder",
                model_kwargs, "whole"),
      HubBranch("paraphrase-distilroberta", AutoModel,
                "sentence-transformers/paraphrase-distilroberta-base-v1",
                model_kwargs, "whole")>>

\* The if/elif chain, in the order of the code.
Branches ==
    <<HubBranch("dpr", "transformers.DPRContextEncoder.from_pretrained",
                "facebook/dpr-ctx_encoder-single-nq-base", no_kwargs, "whole"),
      StBranch("dpr_st",
               "sentence-transformers/facebook-dpr-question_encoder-multiset-base"),
      HubBranch("contriever", AutoModel, "facebook/contriever", model_kwargs, "whole"),
      HubBranch("bert", AutoModel, "bert-base-uncased", model_kwargs, "whole"),
      HubBranch("gtr_base", AutoModel, "sentence-transformers/gtr-t5-base",
                model_kwargs, "encoder"),
      ConfigBranch("gtr_base__random_init", "sentence-transformers/gtr-t5-base"),
      StBranch("gtr_base_st", "sentence-transformers/gtr-t5-base"),
      StBranch("gtr_large", "sentence-transformers/gtr-t5-large"),
      HubBranch("ance_tele", AutoModel, "OpenMatch/ance-tele_nq_psg-encoder",
                model_kwargs, "whole"),
      HubBranch("paraphrase-distilroberta", AutoModel,
                "sentence-transformers/paraphrase-distilroberta-base-v1",
                model_kwargs, "whole")>>

\* The conditions of the chain that name evaluates to true.
Matching(name) == {i \in DOMAIN Branches : name = Branches[i].when}

\* The calls that go to the external repository: from_config builds the
\* model locally from a configuration already fetched.
Remote(calls) ==
    SelectSeq(calls, LAMBDA c : c.api # "transformers.AutoModel.from_config")

Raised(name, matching, exc, msg) ==
    [name |-> name, matching |-> matching, branch |-> 0, raised |-> TRUE,
     error |-> [type |-> exc, msg |-> msg],
     calls |-> <<>>, model |-> NoEmbedder, tokenizer |-> NoTokenizer]

Returned(name, matching, i) ==
    [name |-> name, matching |-> matching, branch |-> i, raised |-> FALSE,
     error |-> NoError,
     calls |-> Branches[i].calls, model |-> Branches[i].model,
     tokenizer |-> Branches[i].tokenizer]

\* An unknown name loads bert instead of raising.
load_with_default_fallback(name) ==
    LET matching == Matching(name)
        first == IF matching = {} THEN 4
                 ELSE CHOOSE i \in matching : \A j \in matching : i <= j
    IN  Returned(name, matching, first)

load_embedder_and_tokenizer(name) ==
    LET matching == Matching(name)
    IN  IF matching = {}
        THEN Raised(name, matching, "ValueError", "unknown embedder " \o name)
        ELSE Returned(name, matching,
                      CHOOSE i \in matching : \A j \in matching : i <= j)

InitLoad ==
    /\ last_load = NoLoad
    /\ n_loads = 0
    /\ repo_log = <<>>
    /\ hidden_states = <<>>
    /\ attention_mask = <<>>
    /\ pooled = NotPooled
    /\ changed = FALSE
    /\ model = NoModel
    /\ printed = NothingPrinted
    /\ scorer_call = NoScorerCall
    /\ scorer_result = NotScored

\* A caller loads an embedder by name; a raised error propagates to it.
Load(name) ==
    /\ n_loads < MaxCalls
    /\ n_loads' = n_loads + 1
    /\ last_load' = load_embedder_and_tokenizer(name)
    /\ repo_log' = repo_log \o Remote(last_load'.calls)
    /\ UNCHANGED <<pool_vars, module_vars, scorer_vars>>

NextLoad == \E name \in Names : Load(name)

---------------------------------------------------------------------------
(***************************************************************************)
(* mean_pool, max_pool, stack_pool                                         *)
(***************************************************************************)
MaxBatch == 2           \* B
MaxSeq == 3             \* S
MaxDim == 2             \* D
MaxCells == 4           \* B * S * D, the size of a hidden-state tensor

\* The values an entry of a hidden-state tensor takes.
Vals == {-1, 0, 2}

Shapes == {sh \in (1 .. MaxBatch) \X (1 .. MaxSeq) \X (1 .. MaxDim) :
              sh[1] * sh[2] * sh[3] <= MaxCells}

Tensors(sh) == [1 .. sh[1] -> [1 .. sh[2] -> [1 .. sh[3] -> Vals]]]

Masks(sh) == [1 .. sh[1] -> [1 .. sh[2] -> {0, 1}]]

\* hidden_states.shape
ShapeOf(h) == <<Len(h), Len(h[1]), Len(h[1][1])>>

\* The shape of a pooled output, (rows, columns).
ShapeOf2(t) == <<Len(t), Len(t[1])>>

\* hidden_states * attention_mask[..., None]
Unmask(h, m) ==
    [b \in DOMAIN h |-> [s \in DOMAIN h[b] |->
        [d \in DOMAIN h[b][s] |-> h[b][s][d] * m[b][s]]]]

RECURSIVE Gcd(_, _)
Gcd(a, b) == IF b = 0 THEN a ELSE Gcd(b, a % b)

Abs(a) == IF a < 0 THEN -a ELSE a

Sign(a) == IF a < 0 THEN -1 ELSE IF a > 0 THEN 1 ELSE 0

\* The true division a / b of two integers, b >= 0, as the exact quotient
\* in lowest terms; x / 0 is nan for x = 0 and an infinity otherwise, kept
\* as num / 0.
TrueDiv(a, b) ==
    IF b = 0 THEN [num |-> Sign(a), den |-> 0]
    ELSE LET g == Gcd(Abs(a), b) IN [num |-> a \div g, den |-> b \div g]

MaxOf(S) == CHOOSE x \in S : \A y \in S : y <= x

\* assert pooled_outputs.shape == (...)
AssertShape(out, shape) ==
    IF ShapeOf2(out) = shape THEN out ELSE <<"AssertionError">>

\* The sum is divided by S, not by the number of unmasked positions.
mean_pool_over_seq_length(h, m) ==
    LET sh == ShapeOf(h)
        unmasked_outputs == Unmask(h, m)
        pooled_outputs ==
            [b \in 1 .. sh[1] |-> [d \in 1 .. sh[3] |->
                TrueDiv(SumSeq([s \in 1 .. sh[2] |-> unmasked_outputs[b][s][d]]),
                        sh[2])]]
    IN  AssertShape(pooled_outputs, <<sh[1], sh[3]>>)

mean_pool(h, m) ==
    LET sh == ShapeOf(h)
        unmasked_outputs == Unmask(h, m)
        pooled_outputs ==
            [b \in 1 .. sh[1] |-> [d \in 1 .. sh[3] |->
                TrueDiv(SumSeq([s \in 1 .. sh[2] |-> unmasked_outputs[b][s][d]]),
                        SumSeq(m[b]))]]
    IN  AssertShape(pooled_outputs, <<sh[1], sh[3]>>)

max_pool(h, m) ==
    LET sh == ShapeOf(h)
        unmasked_outputs == Unmask(h, m)
        pooled_outputs ==
            [b \in 1 .. sh[1] |-> [d \in 1 .. sh[3] |->
                MaxOf({unmasked_outputs[b][s][d] : s \in 1 .. sh[2]})]]
    IN  AssertShape(pooled_outputs, <<sh[1], sh[3]>>)

\* The hidden states are flattened without the mask applied.
stack_pool_unmasked(h, m) ==
    LET sh == ShapeOf(h)
        pooled_outputs ==
            [b \in 1 .. sh[1] |-> [k \in 1 .. sh[2] * sh[3] |->
                h[b][((k - 1) \div sh[3]) + 1][((k - 1) % sh[3]) + 1]]]
    IN  AssertShape(pooled_outputs, <<sh[1], sh[2] * sh[3]>>)

\* reshape((B, S * D)) lays the rows of a (S, D) block out one after another.
stack_pool(h, m) ==
    LET sh == ShapeOf(h)
        unmasked_outputs == Unmask(h, m)
        pooled_outputs ==
            [b \in 1 .. sh[1] |-> [k \in 1 .. sh[2] * sh[3] |->
                unmasked_outputs[b][((k - 1) \div sh[3]) + 1][((k - 1) % sh[3]) + 1]]]
    IN  AssertShape(pooled_outputs, <<sh[1], sh[2] * sh[3]>>)

\* The positions (b, s) the mask leaves out.
MaskedOut(m) == {p \in (DOMAIN m) \X (DOMAIN m[1]) : m[p[1]][p[2]] = 0}

\* The tensors of h's shape that equal h wherever the mask is 1.
Variants(h, m) ==
    LET sh == ShapeOf(h)
    IN  {[b \in 1 .. sh[1] |-> [s \in 1 .. sh[2] |->
            IF m[b][s] = 1 THEN h[b][s] ELSE g[<<b, s>>]]] :
         g \in [MaskedOut(m) -> [1 .. sh[3] -> Vals]]}

InitPool ==
    /\ \E sh \in Shapes :
        /\ hidden_states \in Tensors(sh)
        /\ attention_mask \in Masks(sh)
    /\ pooled = NotPooled
    /\ changed = FALSE
    /\ last_load = NoLoad
    /\ n_loads = 0
    /\ repo_log = <<>>
    /\ model = NoModel
    /\ printed = NothingPrinted
    /\ scorer_call = NoScorerCall
    /\ scorer_result = NotScored

\* A caller pools a batch whose unmasked entries are those of the last one.
Pooling(op, h) ==
    /\ hidden_states' = h
    /\ changed' = (pooled.op = op /\ h # hidden_states)
    /\ UNCHANGED <<attention_mask, loader_vars, module_vars, scorer_vars>>

MeanPool ==
    \E h \in Variants(hidden_states, attention_mask) :
        /\ pooled' = [op |-> "mean_pool", out |-> mean_pool(h, attention_mask)]
        /\ Pooling("mean_pool", h)

MaxPool ==
    \E h \in Variants(hidden_states, attention_mask) :
        /\ pooled' = [op |-> "max_pool", out |-> max_pool(h, attention_mask)]
        /\ Pooling("max_pool", h)

StackPool ==
    \E h \in Variants(hidden_states, attention_mask) :
        /\ pooled' = [op |-> "stack_pool", out |-> stack_pool(h, attention_mask)]
        /\ Pooling("stack_pool", h)

NextPool == MeanPool \/ MaxPool \/ StackPool

---------------------------------------------------------------------------
(***************************************************************************)
(* disable_dropout, freeze_params                                          *)
(*                                                                         *)
(* A model is a tree of modules.  Module 1 is the model itself; module i's *)
(* parent is a module registered before it.  A module holds the parameters *)
(* registered on it directly, by identity: a tied parameter is held by two *)
(* modules.                                                                *)
(***************************************************************************)
MaxSize == 4            \* modules plus parameters of a model
MaxRepeat == 2          \* calls of one mutator on one model

\* Drop probabilities, in percent.
PVals == {0, 50}

\* Element counts of a parameter.
NumelVals == {1, 2}

\* The p of a module that is no nn.Dropout: it has no such attribute.
NoP == -1

ModuleKinds == {[cls |-> "Module", p |-> NoP]} \cup
               {[cls |-> "Dropout", p |-> v] : v \in PVals}

Parents(n) == {f \in [1 .. n -> 0 .. n - 1] :
                  \A i \in 1 .. n : IF i = 1 THEN f[i] = 0
                                    ELSE f[i] >= 1 /\ f[i] < i}

ParamDecls(n) == {d \in [numel : NumelVals, requires_grad : BOOLEAN,
                         owner : 1 .. n, also : 0 .. n] : d.also # d.owner}

\* The model with the given tree, module kinds and parameters.
BuildModel(parent, kinds, decls) ==
    [modules |-> [i \in DOMAIN parent |->
        [parent |-> parent[i], cls |-> kinds[i].cls, p |-> kinds[i].p,
         own |-> SelectSeq([j \in DOMAIN decls |-> j],
                           LAMBDA j : decls[j].owner = i \/ decls[j].also = i)]],
     params |-> [j \in DOMAIN decls |->
        [numel |-> decls[j].numel, requires_grad |-> decls[j].requires_grad]]]

RECURSIVE Flatten(_)
Flatten(ss) == IF ss = <<>> THEN <<>> ELSE Head(ss) \o Flatten(Tail(ss))

\* Without the entries that occurred before: the memo of torch's traversals.
RECURSIVE Dedup(_, _)
Dedup(s, seen) ==
    IF s = <<>> THEN <<>>
    ELSE IF Head(s) \in seen THEN Dedup(Tail(s), seen)
    ELSE <<Head(s)>> \o Dedup(Tail(s), seen \cup {Head(s)})

\* model.children() of module i, in registration order.
Children(m, i) ==
    SelectSeq([k \in DOMAIN m.modules |-> k], LAMBDA k : m.modules[k].parent = i)

\* model.modules(): the module, then each child's modules, depth first.
RECURSIVE ModulesFrom(_, _)
ModulesFrom(m, i) ==
    LET ch == Children(m, i)
    IN  <<i>> \o Flatten([k \in DOMAIN ch |-> ModulesFrom(m, ch[k])])

modules(m) == Dedup(ModulesFrom(m, 1), {})

\* model.named_parameters() with duplicates kept.
named_parameters_with_duplicates(m) ==
    LET ms == modules(m)
    IN  Flatten([k \in DOMAIN ms |-> m.modules[ms[k]].own])

\* model.named_parameters(): every module's own parameters, each once.
named_parameters(m) ==
    LET ms == modules(m)
    IN  Dedup(Flatten([k \in DOMAIN ms |-> m.modules[ms[k]].own]), {})

isinstance_Dropout(mod) == mod.cls = "Dropout"

\* Only the direct children of the model are looked at.
disable_dropout_children_only(m) ==
    LET dropout_modules ==
            SelectSeq(Children(m, 1), LAMBDA i : isinstance_Dropout(m.modules[i]))
    IN  [model |-> [m EXCEPT !.modules =
                       [i \in DOMAIN m.modules |->
                           IF i \in Range(dropout_modules)
                           THEN [m.modules[i] EXCEPT !.p = 0]
                           ELSE m.modules[i]]],
         count |-> Len(dropout_modules)]

\* Only the modules whose p changes are counted.
disable_dropout_counts_changed(m) ==
    LET dropout_modules ==
            SelectSeq(modules(m), LAMBDA i : isinstance_Dropout(m.modules[i]))
    IN  [model |-> [m EXCEPT !.modules =
                       [i \in DOMAIN m.modules |->
                           IF i \in Range(dropout_modules)
                           THEN [m.modules[i] EXCEPT !.p = 0]
                           ELSE m.modules[i]]],
         count |-> Len(SelectSeq(dropout_modules,
                                 LAMBDA i : m.modules[i].p # 0))]

disable_dropout(m) ==
    LET dropout_modules ==
            SelectSeq(modules(m), LAMBDA i : isinstance_Dropout(m.modules[i]))
    IN  [model |-> [m EXCEPT !.modules =
                       [i \in DOMAIN m.modules |->
                           IF i \in Range(dropout_modules)
                           THEN [m.modules[i] EXCEPT !.p = 0]
                           ELSE m.modules[i]]],
         count |-> Len(dropout_modules)]

\* A tied parameter is visited once for each module that holds it.
freeze_params_with_duplicates(m) ==
    LET ps == named_parameters_with_duplicates(m)
    IN  [model |-> [m EXCEPT !.params =
                       [j \in DOMAIN m.params |->
                           IF j \in Range(ps)
                           THEN [m.params[j] EXCEPT !.requires_grad = FALSE]
                           ELSE m.params[j]]],
         count |-> SumSeq([k \in DOMAIN ps |-> m.params[ps[k]].numel])]

freeze_params(m) ==
    LET ps == named_parameters(m)
    IN  [model |-> [m EXCEPT !.params =
                       [j \in DOMAIN m.params |->
                           IF j \in Range(ps)
                           THEN [m.params[j] EXCEPT !.requires_grad = FALSE]
                           ELSE m.params[j]]],
         count |-> SumSeq([k \in DOMAIN ps |-> m.params[ps[k]].numel])]

InitModule ==
    /\ \E n \in 1 .. MaxSize : \E np \in 0 .. MaxSize - n :
        \E parent \in Parents(n), kinds \in [1 .. n -> ModuleKinds],
           decls \in [1 .. np -> ParamDecls(n)] :
            model = BuildModel(parent, kinds, decls)
    /\ printed = NothingPrinted
    /\ last_load = NoLoad
    /\ n_loads = 0
    /\ repo_log = <<>>
    /\ hidden_states = <<>>
    /\ attention_mask = <<>>
    /\ pooled = NotPooled
    /\ changed = FALSE
    /\ scorer_call = NoScorerCall
    /\ scorer_result = NotScored

\* print(f"Disabled {len(dropout_modules)} dropout modules ...")
DisableDropout ==
    /\ Len(printed.disable_dropout) < MaxRepeat
    /\ LET r == disable_dropout(model)
       IN  /\ model' = r.model
           /\ printed' = [printed EXCEPT !.disable_dropout = Append(@, r.count)]
    /\ UNCHANGED <<loader_vars, pool_vars, scorer_vars>>

\* print(f"Froze {total_num_params} params ...")
FreezeParams ==
    /\ Len(printed.freeze_params) < MaxRepeat
    /\ LET r == freeze_params(model)
       IN  /\ model' = r.model
           /\ printed' = [printed EXCEPT !.freeze_params = Append(@, r.count)]
    /\ UNCHANGED <<loader_vars, pool_vars, scorer_vars>>

NextModule == DisableDropout \/ FreezeParams

---------------------------------------------------------------------------
(***************************************************************************)
(* PrefixReranker.score_prefix_and_embedding                               *)
(*                                                                         *)
(* The networks the method calls (embedding_projection, embed_tokens, the  *)
(* prefix embedder, the score head) are kept as symbols applied to their   *)
(* arguments: the method decides what is passed where.                     *)
(***************************************************************************)
MaxPrefix == 2          \* L, the prefix length
MaxTokens == 4          \* B * L, the size of prefix_ids

\* Token ids of a prefix.
Vocab == {5, 7}

\* Completion embeddings, each standing for one 768-vector.
EmbVals == {100, 200}

ScorerShapes == {sh \in (1 .. MaxBatch) \X (0 .. MaxPrefix) :
                    sh[1] * sh[2] <= MaxTokens}

\* self.embedding_projection(e), for one example
embedding_projection(e) == [fn |-> "embedding_projection", arg |-> e]

\* self.prefix_embedder.encoder.embed_tokens(id), for one token
embed_tokens(id) == [fn |-> "embed_tokens", arg |-> id]

\* model_output.last_hidden_state[b, pos, :] of the call made, pos from 0
last_hidden_state(b, pos) == [fn |-> "last_hidden_state", b |-> b, pos |-> pos]

\* self.score(v), a row of one scalar
score(v) == <<[fn |-> "score", arg |-> v]>>

\* The completion embedding goes after the prefix, and the 1 with it.
score_prefix_and_embedding_embedding_last(prefix_ids, mask, embeddings) ==
    LET batch_size == Len(prefix_ids)
        prefix_length == Len(prefix_ids[1])
        projected == [b \in 1 .. batch_size |-> embedding_projection(embeddings[b])]
        inputs_embeds == [b \in 1 .. batch_size |->
                            [s \in 1 .. prefix_length |-> embed_tokens(prefix_ids[b][s])]]
        all_embeddings == [b \in 1 .. batch_size |->
                             inputs_embeds[b] \o <<projected[b]>>]
        ones == [b \in 1 .. batch_size |-> <<1>>]
        attention_mask2 == [b \in 1 .. batch_size |-> mask[b] \o ones[b]]
        output_embeddings == [b \in 1 .. batch_size |-> last_hidden_state(b, 0)]
        scores == [b \in 1 .. batch_size |-> score(output_embeddings[b])]
    IN  [inputs_embeds |-> all_embeddings, attention_mask |-> attention_mask2,
         scores |-> Flatten(scores)]

score_prefix_and_embedding(prefix_ids, mask, embeddings) ==
    LET batch_size == Len(prefix_ids)
        prefix_length == Len(prefix_ids[1])
        projected == [b \in 1 .. batch_size |-> embedding_projection(embeddings[b])]
        inputs_embeds == [b \in 1 .. batch_size |->
                            [s \in 1 .. prefix_length |-> embed_tokens(prefix_ids[b][s])]]
        \* torch.cat((embeddings[:, None], inputs_embeds), dim=1)
        all_embeddings == [b \in 1 .. batch_size |->
                             <<projected[b]>> \o inputs_embeds[b]]
        ones == [b \in 1 .. batch_size |-> <<1>>]
        \* torch.cat((ones, attention_mask), dim=1)
        attention_mask2 == [b \in 1 .. batch_size |-> ones[b] \o mask[b]]
        \* hidden_state[:, 0, :] of prefix_embedder(all_embeddings, attention_mask2)
        output_embeddings == [b \in 1 .. batch_size |-> last_hidden_state(b, 0)]
        scores == [b \in 1 .. batch_size |-> score(output_embeddings[b])]
    IN  [inputs_embeds |-> all_embeddings, attention_mask |-> attention_mask2,
         scores |-> Flatten(scores)]

InitScorer ==
    /\ \E sh \in ScorerShapes :
        \E ids \in [1 .. sh[1] -> [1 .. sh[2] -> Vocab]],
           mask \in [1 .. sh[1] -> [1 .. sh[2] -> {0, 1}]],
           embs \in [1 .. sh[1] -> EmbVals] :
            scorer_call = [prefix_ids |-> ids, attention_mask |-> mask,
                           embeddings |-> embs]
    /\ scorer_result = NotScored
    /\ last_load = NoLoad
    /\ n_loads = 0
    /\ repo_log = <<>>
    /\ hidden_states = <<>>
    /\ attention_mask = <<>>
    /\ pooled = NotPooled
    /\ changed = FALSE
    /\ model = NoModel
    /\ printed = NothingPrinted

Score ==
    /\ scorer_result = NotScored
    /\ scorer_result' = score_prefix_and_embedding(scorer_call.prefix_ids,
                            scorer_call.attention_mask, scorer_call.embeddings)
    /\ UNCHANGED <<scorer_call, loader_vars, pool_vars, module_vars>>

NextScorer == Score

---------------------------------------------------------------------------
(***************************************************************************)
(* The specifications: one per component, and the module as a whole.       *)
(***************************************************************************)
SpecLoad == InitLoad /\ [][NextLoad]_vars

SpecPool == InitPool /\ [][NextPool]_vars

SpecModule == InitModule /\ [][NextModule]_vars

SpecScorer == InitScorer /\ [][NextScorer]_vars

Init == InitLoad \/ InitPool \/ InitModule \/ InitScorer

Next == \/ hidden_states = <<>> /\ model = NoModel /\ scorer_call = NoScorerCall
           /\ NextLoad
        \/ hidden_states # <<>> /\ NextPool
        \/ model # NoModel /\ NextModule
        \/ scorer_call # NoScorerCall /\ NextScorer

Spec == Init /\ [][Next]_vars

---------------------------------------------------------------------------
(***************************************************************************)
(* The loader's claims, under SpecLoad.                                    *)
(***************************************************************************)
Loaded == n_loads > 0

KnownNames == {"bert", "contriever", "dpr", "dpr_st", "gtr_base",
               "gtr_base__random_init", "gtr_base_st", "gtr_large", "ance_tele",
               "paraphrase-distilroberta"}

BothOptions == {<<"low_cpu_mem_usage", TRUE>>, <<"output_hidden_states", TRUE>>}

\* The calls of the last load that produced the model.
ModelCalls == {i \in DOMAIN last_load.calls : last_load.calls[i].binds = "model"}

\* C1: a load of a name that is none of the ten model identifiers raises
\* ValueError("unknown embedder " + name), returns no model and no
\* tokenizer, makes no library call and sends the external repository
\* nothing.
C1_UnknownNameRaises ==
    [][(n_loads' = n_loads + 1 /\ last_load'.name \notin KnownNames) =>
          /\ last_load'.raised
          /\ last_load'.error.type = "ValueError"
          /\ last_load'.error.msg = "unknown embedder " \o last_load'.name
          /\ last_load'.model = NoEmbedder
          /\ last_load'.tokenizer = NoTokenizer
          /\ last_load'.calls = <<>>
          /\ repo_log' = repo_log]_vars

C1_Witness ==
    /\ Loaded
    /\ last_load.name = "not_a_real_model"
    /\ last_load.raised
    /\ repo_log # <<>>

\* C2: MODEL_NAMES holds exactly the ten identifiers; a load of one of them
\* meets exactly one condition of the chain, does not raise, and returns a
\* model and a tokenizer of one and the same named artifact, every library
\* call it makes naming that artifact; and every condition of the chain
\* tests for an identifier of MODEL_NAMES.
C2_KnownNameLoadsMatchedPair ==
    /\ Range(MODEL_NAMES) = KnownNames
    /\ Len(MODEL_NAMES) = 10
    /\ \A i \in DOMAIN Branches : Branches[i].when \in Range(MODEL_NAMES)
    /\ (Loaded /\ last_load.name \in Range(MODEL_NAMES)) =>
          /\ Cardinality(last_load.matching) = 1
          /\ last_load.branch \in last_load.matching
          /\ ~last_load.raised
          /\ last_load.calls # <<>>
          /\ last_load.tokenizer.artifact = last_load.model.artifact
          /\ \A i \in DOMAIN last_load.calls :
                last_load.calls[i].artifact = last_load.model.artifact

C2_Witness ==
    /\ Loaded
    /\ last_load.name = "gtr_base__random_init"
    /\ ~last_load.raised
    /\ last_load.model.weights = "random"

\* C3 as stated: for every identifier of the set, the call that loads the
\* model carries low_cpu_mem_usage=True and output_hidden_states=True.
C3_EveryModelLoadCarriesOptions ==
    (Loaded /\ last_load.name \in KnownNames) =>
        /\ ~last_load.raised
        /\ ModelCalls # {}
        /\ \A i \in ModelCalls : last_load.calls[i].kwargs = BothOptions

\* C3 as amended: for bert, contriever, gtr_base, ance_tele and
\* paraphrase-distilroberta the one call that loads the model carries
\* low_cpu_mem_usage=True and output_hidden_states=True; for dpr, dpr_st,
\* gtr_base__random_init, gtr_base_st and gtr_large the one call that
\* produces the model carries no option.
C3_AutoModelLoadsCarryOptions ==
    (Loaded /\ last_load.name \in KnownNames) =>
        /\ ~last_load.raised
        /\ Cardinality(ModelCalls) = 1
        /\ \A i \in ModelCalls :
              last_load.calls[i].kwargs =
                  IF last_load.name \in {"bert", "contriever", "gtr_base",
                                         "ance_tele", "paraphrase-distilroberta"}
                  THEN BothOptions ELSE {}

C3_Witness ==
    /\ Loaded
    /\ last_load.name = "bert"
    /\ ~last_load.raised
    /\ \E i \in ModelCalls : last_load.calls[i].kwargs = BothOptions

---------------------------------------------------------------------------
(***************************************************************************)
(* The pooling claims, under SpecPool.                                     *)
(***************************************************************************)
Batch == 1 .. Len(hidden_states)

SeqPositions == 1 .. Len(hidden_states[1])

Features == 1 .. Len(hidden_states[1][1])

\* The positions of example b that the mask keeps.
Kept(b) == {s \in SeqPositions : attention_mask[b][s] = 1}

EveryExampleKeepsOne == \A b \in Batch : Kept(b) # {}

RECURSIVE SumOver(_, _, _)
SumOver(b, d, positions) ==
    IF positions = {} THEN 0
    ELSE LET s == CHOOSE x \in positions : TRUE
         IN  hidden_states[b][s][d] + SumOver(b, d, positions \ {s})

\* C4: when every example keeps a position, mean_pool returns a (B, D)
\* result whose entry (b, d) is the sum of hidden_states[b, s, d] over the
\* kept positions s, divided by the number of kept positions.
C4_MeanOverKept ==
    (pooled.op = "mean_pool" /\ EveryExampleKeepsOne) =>
        /\ Len(pooled.out) = Len(hidden_states)
        /\ \A b \in Batch :
            /\ Len(pooled.out[b]) = Len(hidden_states[1][1])
            /\ \A d \in Features :
                /\ pooled.out[b][d].den > 0
                /\ pooled.out[b][d].num * Cardinality(Kept(b)) =
                       SumOver(b, d, Kept(b)) * pooled.out[b][d].den

C4_Witness ==
    /\ pooled.op = "mean_pool"
    /\ EveryExampleKeepsOne
    /\ Len(hidden_states) = 2
    /\ Cardinality(Kept(1)) = 2
    /\ \E s \in SeqPositions : attention_mask[2][s] = 0 /\ hidden_states[2][s][1] # 0
    /\ pooled.out[1][1].den = 2

\* C5: when every example keeps a position, max_pool returns a (B, D)
\* result whose entry (b, d) is the maximum of hidden_states[b, s, d] over
\* the kept positions s alone.
C5_MaxOverKept ==
    (pooled.op = "max_pool" /\ EveryExampleKeepsOne) =>
        /\ Len(pooled.out) = Len(hidden_states)
        /\ \A b \in Batch :
            /\ Len(pooled.out[b]) = Len(hidden_states[1][1])
            /\ \A d \in Features :
                pooled.out[b][d] = MaxOf({hidden_states[b][s][d] : s \in Kept(b)})

\* The output of stack_pool has shape (B, S * D) and the slice of a
\* masked-out position is all zeros.
StackedWithZeroSlices ==
    LET S == Len(hidden_states[1])
        D == Len(hidden_states[1][1])
    IN  /\ Len(pooled.out) = Len(hidden_states)
        /\ \A b \in Batch :
            /\ Len(pooled.out[b]) = S * D
            /\ \A s \in SeqPositions \ Kept(b) : \A d \in Features :
                  pooled.out[b][(s - 1) * D + d] = 0

\* A call of the function pooled.op on a tensor of the same shape, with the
\* same mask, that equals the last tensor wherever the mask is 1.
CalledAgainOnAgreeingTensor ==
    /\ pooled.op # "none"
    /\ pooled'.op = pooled.op
    /\ attention_mask' = attention_mask
    /\ ShapeOf(hidden_states') = ShapeOf(hidden_states)
    /\ \A b \in Batch : \A s \in Kept(b) :
          hidden_states'[b][s] = hidden_states[b][s]

\* torch.equal of two outputs of the function op: the same shape and equal
\* entries, where a nan (0 / 0, an entry of mean_pool alone) equals nothing.
OutputsEqual(op, x, y) ==
    /\ x = y
    /\ op = "mean_pool" =>
          \A b \in DOMAIN x : \A d \in DOMAIN x[b] :
              ~(x[b][d].num = 0 /\ x[b][d].den = 0)

\* C6 as stated: when mean_pool, max_pool or stack_pool is called again
\* with the same 0/1 mask on a tensor that equals the last one wherever the
\* mask is 1, whatever it holds where the mask is 0, the two outputs are
\* equal; and the output of stack_pool has shape (B, S * D) with all zeros
\* in the slice of every masked-out position.
C6_MaskedOutHasNoInfluenceAnyMask ==
    [][/\ CalledAgainOnAgreeingTensor
          => OutputsEqual(pooled.op, pooled.out, pooled'.out)
       /\ pooled'.op = "stack_pool" => StackedWithZeroSlices']_vars

\* C6 as amended: the same, where for mean_pool every example of the mask
\* keeps at least one position.
C6_MaskedOutHasNoInfluence ==
    [][/\ (/\ CalledAgainOnAgreeingTensor
           /\ pooled.op = "mean_pool" => EveryExampleKeepsOne)
          => OutputsEqual(pooled.op, pooled.out, pooled'.out)
       /\ pooled'.op = "stack_pool" => StackedWithZeroSlices']_vars

C6_Witness ==
    /\ changed
    /\ pooled.op = "mean_pool"
    /\ EveryExampleKeepsOne
    /\ Len(hidden_states) = 2
    /\ \E s \in SeqPositions : attention_mask[1][s] = 0 /\ hidden_states[1][s][1] # 0
    /\ \E s \in SeqPositions : attention_mask[2][s] = 1 /\ hidden_states[2][s][1] # 0

---------------------------------------------------------------------------
(***************************************************************************)
(* The mutators' claims, under SpecModule.                                 *)
(***************************************************************************)
Last(s) == s[Len(s)]

DropoutModules == {i \in DOMAIN model.modules : model.modules[i].cls = "Dropout"}

\* The depth of module i in the tree, the model itself at depth 1.
RECURSIVE Depth(_)
Depth(i) == IF model.modules[i].parent = 0 THEN 1
            ELSE 1 + Depth(model.modules[i].parent)

\* C7: after disable_dropout every dropout module of the tree, at every
\* depth, has p = 0, and the count printed is the number of dropout
\* modules of the tree.
C7_DropoutDisabledAndCounted ==
    printed.disable_dropout # <<>> =>
        /\ \A i \in DropoutModules : model.modules[i].p = 0
        /\ Last(printed.disable_dropout) = Cardinality(DropoutModules)

C7_Witness ==
    /\ printed.disable_dropout # <<>>
    /\ Last(printed.disable_dropout) = 2
    /\ \E i \in DropoutModules : Depth(i) = 3
    /\ \E i \in DropoutModules : Depth(i) = 2

\* C8: after freeze_params every parameter of the model has requires_grad
\* false, and the total printed is the sum of the element counts of the
\* model's parameters, a parameter held by two modules counted once.
C8_AllFrozenAndCounted ==
    printed.freeze_params # <<>> =>
        /\ \A j \in DOMAIN model.params : ~model.params[j].requires_grad
        /\ Last(printed.freeze_params) =
               SumSeq([j \in DOMAIN model.params |-> model.params[j].numel])

C8_Witness ==
    /\ printed.freeze_params # <<>>
    /\ Len(model.params) = 2
    /\ Last(printed.freeze_params) = 3
    /\ \E i, k \in DOMAIN model.modules :
          /\ i # k
          /\ \E j \in Range(model.modules[i].own) : j \in Range(model.modules[k].own)

\* C9: a call of disable_dropout or of freeze_params on a model the same
\* operation was already applied to, whatever calls of the other came in
\* between, leaves every drop probability and every requires_grad flag as
\* they are and prints the count the first call printed.
C9_MutatorsIdempotent ==
    [][/\ (/\ printed.disable_dropout # <<>>
           /\ Len(printed'.disable_dropout) = Len(printed.disable_dropout) + 1)
          => /\ model' = model
             /\ Last(printed'.disable_dropout) = printed.disable_dropout[1]
       /\ (/\ printed.freeze_params # <<>>
           /\ Len(printed'.freeze_params) = Len(printed.freeze_params) + 1)
          => /\ model' = model
             /\ Last(printed'.freeze_params) = printed.freeze_params[1]]_vars

C9_Witness ==
    /\ Len(printed.disable_dropout) = 2
    /\ Len(printed.freeze_params) = 2
    /\ printed.disable_dropout[1] >= 2
    /\ printed.freeze_params[1] >= 2

---------------------------------------------------------------------------
(***************************************************************************)
(* The scorer's claim, under SpecScorer.                                   *)
(***************************************************************************)
Scored == scorer_result # NotScored

\* C10: the prefix embedder is called with inputs_embeds and attention_mask
\* of length L + 1 for each of the B examples: position 0 holds the
\* projection of the example's completion embedding, with mask 1, and
\* positions 1..L hold the embeddings of the prefix tokens with their mask
\* values, in the order given; B scores are returned, the score of example
\* b being the score head applied to last_hidden_state[b, 0].
C10_EmbeddingPrependedAndScored ==
    Scored =>
        LET B == Len(scorer_call.prefix_ids)
            L == Len(scorer_call.prefix_ids[1])
        IN  /\ Len(scorer_result.inputs_embeds) = B
            /\ Len(scorer_result.attention_mask) = B
            /\ Len(scorer_result.scores) = B
            /\ \A b \in 1 .. B :
                /\ Len(scorer_result.inputs_embeds[b]) = L + 1
                /\ Len(scorer_result.attention_mask[b]) = L + 1
                /\ scorer_result.inputs_embeds[b][1] =
                       [fn |-> "embedding_projection",
                        arg |-> scorer_call.embeddings[b]]
                /\ scorer_result.attention_mask[b][1] = 1
                /\ \A s \in 1 .. L :
                    /\ scorer_result.inputs_embeds[b][s + 1] =
                           [fn |-> "embed_tokens",
                            arg |-> scorer_call.prefix_ids[b][s]]
                    /\ scorer_result.attention_mask[b][s + 1] =
                           scorer_call.attention_mask[b][s]
                /\ scorer_result.scores[b] =
                       [fn |-> "score",
                        arg |-> [fn |-> "last_hidden_state", b |-> b, pos |-> 0]]

C10_Witness ==
    /\ Scored
    /\ Len(scorer_call.prefix_ids) = 2
    /\ scorer_call.prefix_ids[1] = <<5, 7>>
    /\ scorer_call.attention_mask[1] = <<0, 1>>
    /\ scorer_call.embeddings = <<200, 100>>
    /\ scorer_result.attention_mask[1] = <<1, 0, 1>>

=============================================================================
